---- MODULE Spec2Model ----
(***************************************************************************)
(* A model of the session protocol of secure-messaging-system.js: key      *)
(* ring, bundle verification, session establishment, the symmetric         *)
(* ratchet and authenticated encryption / decryption with the counter      *)
(* based replay check.                                                     *)
(*                                                                         *)
(* Cryptographic primitives are symbolic (a free term algebra): a key is   *)
(* the sequence of derivation steps that produced it, a ciphertext names   *)
(* the key, iv and bytes it was made from, a MAC names its key and the     *)
(* serialised package, a signature names the signing key and the data.     *)
(* Hashes and MACs are therefore collision free.  A value drawn with       *)
(* crypto.randomBytes (a session secret, a session identifier, an iv) is   *)
(* a fresh one: it equals no value drawn before.                           *)
(***************************************************************************)
EXTENDS Integers, Sequences, FiniteSets, TLC

(***************************************************************************)
(* Bound of the model: the calls that change the state of an instance      *)
(* (initialize, a successful establishSession, encryptMessage or           *)
(* decryptMessage, an encryptMessage that throws after the counter update, *)
(* a session handed to the other end), over all instances.  Calls that     *)
(* fail without changing anything are not counted.                         *)
(***************************************************************************)
MaxCalls == 6

(***************************************************************************)
(* Program constants.                                                      *)
(***************************************************************************)
\* for (let i = 0; i < 5; i++) this.oneTimePreKeys.push(...)
NumOneTimePreKeys == 5

\* The client operations, and the requests of third parties, that a run of the
\* clients is followed for.
MaxOps == 5

\* The requests to the relay that a run of the relay alone is followed for.
MaxRequests == 6

Parties == {"alice", "bob"}

(***************************************************************************)
(* Plaintexts.  A JavaScript string is a sequence of UTF-16 code units;    *)
(* the model keeps three classes of unit: "a" (a character of the basic    *)
(* plane that is no surrogate), "H" (a high surrogate), "L" (a low         *)
(* surrogate), and "R" (U+FFFD, the replacement character).  An argument   *)
(* that is no string (undefined, a number) has type "undefined".           *)
(***************************************************************************)
Str(units) == [type |-> "string", units |-> units]

NotAString == [type |-> "undefined", units |-> <<>>]

Messages == {Str(<<"a", "H", "L">>), Str(<<"L", "a">>), NotAString}

\* No unpaired surrogate: every "H" is followed by an "L" and every "L"
\* follows an "H".
WellFormed(units) ==
  \A i \in DOMAIN units :
    /\ units[i] = "H" => (i < Len(units) /\ units[i + 1] = "L")
    /\ units[i] = "L" => (i > 1 /\ units[i - 1] = "H")

\* cipher.update(message, 'utf8', ...): the string's UTF-8 bytes, one entry
\* per encoded scalar value.  A surrogate pair is one 4-byte scalar, an
\* unpaired surrogate is encoded as U+FFFD.
RECURSIVE Utf8Encode(_)
Utf8Encode(units) ==
  IF units = <<>> THEN <<>>
  ELSE IF units[1] = "H" /\ Len(units) >= 2 /\ units[2] = "L"
       THEN <<"astral">> \o Utf8Encode(SubSeq(units, 3, Len(units)))
  ELSE IF units[1] \in {"H", "L", "R"}
       THEN <<"fffd">> \o Utf8Encode(Tail(units))
  ELSE <<units[1]>> \o Utf8Encode(Tail(units))

\* decipher.update(..., 'utf8') + decipher.final('utf8'): the bytes decoded
\* to code units; bytes that are no valid UTF-8 decode to U+FFFD.
RECURSIVE Utf8Decode(_)
Utf8Decode(bytes) ==
  IF bytes = <<>> THEN <<>>
  ELSE IF bytes[1] = "astral" THEN <<"H", "L">> \o Utf8Decode(Tail(bytes))
  ELSE IF bytes[1] = "a" THEN <<"a">> \o Utf8Decode(Tail(bytes))
  ELSE <<"R">> \o Utf8Decode(Tail(bytes))

(***************************************************************************)
(* Asymmetric keys and signatures.  A key pair is named <<owner, n>>: the  *)
(* n-th pair its owner generated.  The public and the private half carry   *)
(* the same name; only the owner ever signs with it.                       *)
(***************************************************************************)
NoKey == <<>>

\* a key pair of a third party, never held by an instance of the model
MalloryKey == <<"mallory", 1>>

\* sign(data, privateKey): RSA-SHA256, deterministic
Sign(data, privateKey) == [by |-> privateKey, over |-> data]

\* a signature that is no signature of anything (malformed base64, wrong length)
BadSignature == [by |-> NoKey, over |-> NoKey]

\* verify(data, signature, publicKey): true iff the signature was made over
\* this data with the private half of publicKey; any failure is false.
VerifyAnyData(data, signature, publicKey) ==
  signature.by = publicKey /\ publicKey # NoKey

Verify(data, signature, publicKey) ==
  /\ publicKey # NoKey
  /\ signature.by = publicKey
  /\ signature.over = data

(***************************************************************************)
(* Symmetric keys.                                                         *)
(***************************************************************************)
\* crypto.createHash('sha256').update(Buffer.concat([secret, label])).digest()
Sha256(secret, label) == <<secret, label, "sha256">>

\* buffer.slice(from, to)
Slice(buffer, range) == Append(buffer, range)

\* deriveKeys(masterSecret)
DeriveKeys(masterSecret) ==
  [encryptionKey |-> Slice(Sha256(masterSecret, "encryption"), "0:16"),
   macKey        |-> Slice(Sha256(masterSecret, "mac"), "0:16"),
   chainKey      |-> Slice(Sha256(masterSecret, "chain"), "0:16")]

\* crypto.createHmac('sha256', Buffer.from('RatchetStep')).update(chainKey).digest()
HmacRatchetStep(chainKey) == Append(chainKey, "hmac:RatchetStep")

\* The number of ratchet steps that lie between the session secret and a key.
Generation(key) ==
  Cardinality({i \in DOMAIN key : i > Len(DeriveKeys(0).chainKey)
                                   /\ key[i] = "hmac:RatchetStep"})

\* updateChainKey(sessionId), on the session found
UpdateChainKey(session) ==
  LET newKeyMaterial == HmacRatchetStep(session.chainKey)
  IN  [session EXCEPT !.encryptionKey = Slice(newKeyMaterial, "0:16"),
                      !.macKey = Slice(newKeyMaterial, "16:32"),
                      !.chainKey = Slice(newKeyMaterial, "0:16")]

(***************************************************************************)
(* The symmetric cipher and the MAC.                                       *)
(***************************************************************************)
\* createCipheriv('aes-128-cbc', key, iv): update + final
Encipher(key, iv, bytes) ==
  [key |-> key, iv |-> iv, bytes |-> bytes, flipped |-> FALSE]

\* createDecipheriv('aes-128-cbc', key, iv): update + final.  Under the key
\* and iv the ciphertext was made with, the bytes come back.  Under any other
\* key or iv, or for a ciphertext with a bit changed, the padding check of
\* final() either throws (padOk false) or lets garbage through (padOk true).
Decipher(key, iv, ciphertext, padOk) ==
  IF ciphertext.key = key /\ ciphertext.iv = iv /\ ~ciphertext.flipped
  THEN [ok |-> TRUE, bytes |-> ciphertext.bytes]
  ELSE IF padOk THEN [ok |-> TRUE, bytes |-> <<"garbage">>]
  ELSE [ok |-> FALSE, bytes |-> <<>>]

\* the fields a core package carries besides those of encryptMessage: none
NoMeta == <<>>

NoMac == [key |-> <<>>, data |-> <<>>]

\* JSON.stringify(messagePackage) for a package whose mac is absent or
\* undefined: every other field, in insertion order.
Stringify(package) ==
  <<package.sessionId, package.counter, package.iv, package.ciphertext,
    package.meta>>

\* calculateMAC(messagePackage, macKey)
CalculateMAC(package, macKey) == [key |-> macKey, data |-> Stringify(package)]

(***************************************************************************)
(* The core operations, as functions of the session map of one instance.   *)
(* Each returns the session map after the call, the outcome ("ok" or the   *)
(* message of the error thrown), the value returned and whether the cipher *)
(* was reached.                                                            *)
(***************************************************************************)
NoResult == <<>>

Returned(sessions, result, cipherUsed) ==
  [sessionKeys |-> sessions, outcome |-> "ok", result |-> result,
   cipherUsed |-> cipherUsed]

Thrown(sessions, error, cipherUsed) ==
  [sessionKeys |-> sessions, outcome |-> error, result |-> NoResult,
   cipherUsed |-> cipherUsed]

SessionNotFound == "Session not found"
ReplayDetected == "Potential replay attack detected"
MacMismatch == "Message authentication failed"
InvalidSignature == "Invalid signature on recipient bundle"
InvalidArgType == "ERR_INVALID_ARG_TYPE"
BadDecrypt == "bad decrypt"

\* `${this.generateRandomId()}-${recipientId}`
SessionId(randomId, recipientId) == <<randomId, recipientId>>

\* establishSession(recipientId, recipientBundle); randomId and sharedSecret
\* are the two values it draws at random.
EstablishSession(sessions, recipientId, recipientBundle, randomId, sharedSecret) ==
  LET isValid == Verify(recipientBundle.preKey, recipientBundle.signature,
                        recipientBundle.identityKey)
      sessionId == SessionId(randomId, recipientId)
      keys == DeriveKeys(sharedSecret)
      session == [recipientId |-> recipientId,
                  encryptionKey |-> keys.encryptionKey,
                  macKey |-> keys.macKey,
                  chainKey |-> keys.chainKey,
                  messageCounter |-> 0]
  IN  IF ~isValid THEN Thrown(sessions, InvalidSignature, FALSE)
      ELSE Returned([s \in DOMAIN sessions \cup {sessionId} |->
                       IF s = sessionId THEN session ELSE sessions[s]],
                    sessionId, FALSE)

\* A key as JSON.parse(JSON.stringify(...)) gives it back: a plain object
\* that holds the bytes and is no Buffer.
IsBuffer(key) == Len(key) # 1

ParsedJson(key) == IF IsBuffer(key) THEN <<key>> ELSE key

\* recipientBundle.oneTimePreKeys[0] in establishSession: the one-time prekey
\* the call selects (the call makes no further use of it)
SelectedOneTimePreKey(recipientBundle) == recipientBundle.oneTimePreKeys[1]

\* updateChainKey(sessionId) called with a sessionId no session is stored
\* under, were it to store a session of its own making
UpdateChainKeyCreating(sessions, sessionId) ==
  Returned([s \in DOMAIN sessions \cup {sessionId} |->
              IF s = sessionId THEN [recipientId |-> "", encryptionKey |-> NoKey,
                                     macKey |-> NoKey, chainKey |-> NoKey,
                                     messageCounter |-> 0]
              ELSE sessions[s]], NoResult, FALSE)

\* updateChainKey(sessionId), as a call of its own
UpdateChainKeyCall(sessions, sessionId) ==
  IF sessionId \notin DOMAIN sessions
  THEN Thrown(sessions, SessionNotFound, FALSE)
  ELSE Returned([sessions EXCEPT ![sessionId] = UpdateChainKey(sessions[sessionId])],
                NoResult, FALSE)

\* session.messageCounter += 1
NextCounterSame(session) == session.messageCounter

NextCounter(session) == session.messageCounter + 1

\* session.macKey in this.calculateMAC(messagePackage, session.macKey) of
\* encryptMessage: the key in force before the ratchet step
MacKeyAfterRatchet(session) == UpdateChainKey(session).macKey

MacKeyForPackage(session) == session.macKey

\* this.updateChainKey(sessionId) at the end of encryptMessage
RatchetOnEncryptSkipped(session) == session

RatchetOnEncrypt(session) == UpdateChainKey(session)

\* this.updateChainKey(messagePackage.sessionId) at the end of decryptMessage
RatchetOnDecryptSkipped(session) == session

RatchetOnDecrypt(session) == UpdateChainKey(session)

\* encryptMessage(sessionId, message); iv is the value it draws at random.
EncryptMessage(sessions, sessionId, message, iv) ==
  IF sessionId \notin DOMAIN sessions
  THEN Thrown(sessions, SessionNotFound, FALSE)
  ELSE
    LET session == [sessions[sessionId] EXCEPT
                      !.messageCounter = NextCounter(sessions[sessionId])]
        counted == [sessions EXCEPT ![sessionId] = session]
    IN  IF ~IsBuffer(session.encryptionKey) \/ message.type # "string"
        THEN Thrown(counted, InvalidArgType, TRUE)
        ELSE
          LET encrypted == Encipher(session.encryptionKey, iv,
                                    Utf8Encode(message.units))
              messagePackage == [sessionId |-> sessionId,
                                 counter |-> session.messageCounter,
                                 iv |-> iv,
                                 ciphertext |-> encrypted,
                                 mac |-> NoMac,
                                 meta |-> NoMeta]
              mac == CalculateMAC(messagePackage, MacKeyForPackage(session))
          IN  Returned([counted EXCEPT ![sessionId] = RatchetOnEncrypt(session)],
                       [messagePackage EXCEPT !.mac = mac], TRUE)

\* if (messagePackage.counter <= session.messageCounter) throw
IsReplayStrict(package, session) == package.counter < session.messageCounter

IsReplayNever(package, session) == FALSE

IsReplay(package, session) == package.counter <= session.messageCounter

\* providedMac === calculatedMac, over { ...messagePackage, mac: undefined }
MacMatchesAlways(package, session) == TRUE

MacMatches(package, session) ==
  package.mac = CalculateMAC([package EXCEPT !.mac = NoMac], session.macKey)

\* decryptMessage(messagePackage); padOk decides what the cipher does with
\* bytes it was not keyed for.
DecryptMessage(sessions, package, padOk) ==
  IF package.sessionId \notin DOMAIN sessions
  THEN Thrown(sessions, SessionNotFound, FALSE)
  ELSE
    LET session == sessions[package.sessionId]
    IN  IF IsReplay(package, session)
        THEN Thrown(sessions, ReplayDetected, FALSE)
        ELSE IF ~IsBuffer(session.macKey)
        THEN Thrown(sessions, InvalidArgType, FALSE)
        ELSE IF ~MacMatches(package, session)
        THEN Thrown(sessions, MacMismatch, FALSE)
        ELSE
          LET plain == Decipher(session.encryptionKey, package.iv,
                                package.ciphertext, padOk)
              counted == [session EXCEPT !.messageCounter = package.counter]
          IN  IF ~plain.ok
              THEN Thrown(sessions, BadDecrypt, TRUE)
              ELSE Returned([sessions EXCEPT ![package.sessionId] =
                               RatchetOnDecrypt(counted)],
                            Utf8Decode(plain.bytes), TRUE)

(***************************************************************************)
(* State.                                                                  *)
(***************************************************************************)
VARIABLES
  identityKeyPair,  \* per instance: this.identityKeyPair (NoKey: null)
  preKeyPair,       \* per instance: this.preKeyPair (NoKey: null)
  oneTimePreKeys,   \* per instance: this.oneTimePreKeys
  generated,        \* per instance: the generateKeyPair calls made so far
  sessionKeys,      \* per instance: this.sessionKeys, sessionId -> session
  nextId,           \* the establishSession calls that drew random values, plus one
  sent,             \* the packages encryptMessage has returned so far
  audit,            \* per instance and session: the history of the session
  users,            \* relay: serverStorage.users, userId -> bundle
  messages,         \* relay: serverStorage.messages, userId -> queue
  relayLog,         \* relay, per user: what was enqueued and what each drain returned
  activeSessions,   \* per client: this.activeSessions, userId -> sessionId
  files,            \* per client: the session file (NoFile: there is none)
  tasks,            \* per client: its operations suspended at an await
  done,             \* per client and operation: how the last one ended
  started           \* the client operations and foreign requests started so far

keyring == <<identityKeyPair, preKeyPair, oneTimePreKeys, generated>>

relay == <<users, messages, relayLog>>

\* what the calls on the instances themselves leave alone
client == <<activeSessions, files, tasks, done, started>>

outside == <<relay, client>>

vars == <<identityKeyPair, preKeyPair, oneTimePreKeys, generated, sessionKeys,
          nextId, sent, audit, users, messages, relayLog, activeSessions, files,
          tasks, done, started>>

NoFile == [sessions |-> <<>>, sessionKeys |-> <<>>, exists |-> FALSE]

\* the sendMessage calls of a client that may be in flight together: a call
\* made while no other is in flight, and one made while that one is
Sends == {"send", "send2"}

Operations == {"initialize", "receive"} \cup Sends

Idle == [pc |-> "idle"]

NotRun == [outcome |-> "none"]

NoSessions == [s \in {} |-> {}]

\* a sessionId no instance holds
UnknownSid == SessionId(0, "nobody")

Init ==
  /\ identityKeyPair = [p \in Parties |-> NoKey]
  /\ preKeyPair = [p \in Parties |-> NoKey]
  /\ oneTimePreKeys = [p \in Parties |-> <<>>]
  /\ generated = [p \in Parties |-> 0]
  /\ sessionKeys = [p \in Parties |-> NoSessions]
  /\ nextId = 1
  /\ sent = {}
  /\ audit = [p \in Parties |-> NoSessions]
  /\ users = NoSessions
  /\ messages = NoSessions
  /\ relayLog = [u \in Parties |-> [enqueued |-> <<>>, drains |-> <<>>]]
  /\ activeSessions = [p \in Parties |-> NoSessions]
  /\ files = [p \in Parties |-> NoFile]
  /\ tasks = [p \in Parties |-> [o \in Operations |-> Idle]]
  /\ done = [p \in Parties |-> [o \in Operations |-> NotRun]]
  /\ started = 0

(***************************************************************************)
(* The key ring.                                                           *)
(***************************************************************************)
\* the sessions as objects: instance and sessionId
Objects == UNION {{<<p, sid>> : sid \in DOMAIN sessionKeys[p]} : p \in Parties}

\* the calls on the sessions so far that changed them
RECURSIVE SessionCalls(_)
SessionCalls(objects) ==
  IF objects = {} THEN 0
  ELSE LET o == CHOOSE o \in objects : TRUE
       IN  1 + Len(audit[o[1]][o[2]].log) + audit[o[1]][o[2]].encFail
             + SessionCalls(objects \ {o})

\* the calls so far that changed the state of an instance
Calls ==
  (generated["alice"] + generated["bob"]) \div (NumOneTimePreKeys + 2)
    + SessionCalls(Objects)

\* generateKeyPair(): the n-th key pair of its owner
GenerateKeyPair(p, n) == <<p, n>>

\* initialize()
Initialize(p) ==
  /\ Calls < MaxCalls
  /\ identityKeyPair' = [identityKeyPair EXCEPT ![p] = GenerateKeyPair(p, generated[p] + 1)]
  /\ preKeyPair' = [preKeyPair EXCEPT ![p] = GenerateKeyPair(p, generated[p] + 2)]
  /\ oneTimePreKeys' = [oneTimePreKeys EXCEPT ![p] =
       @ \o [i \in 1..NumOneTimePreKeys |-> GenerateKeyPair(p, generated[p] + 2 + i)]]
  /\ generated' = [generated EXCEPT ![p] = @ + NumOneTimePreKeys + 2]
  /\ UNCHANGED <<sessionKeys, nextId, sent, audit, outside>>

\* the registrationBundle that register(userId) builds from a key ring
RegistrationBundle(userId, identity, preKey, oneTime) ==
  [userId |-> userId,
   identityKey |-> identity,
   preKey |-> preKey,
   oneTimePreKeys |-> oneTime,
   signature |-> Sign(preKey, identity)]

\* register(userId), for an initialised instance
Register(p) ==
  RegistrationBundle(p, identityKeyPair[p], preKeyPair[p], oneTimePreKeys[p])

\* A bundle with its preKey, its signature or its identityKey replaced, and
\* one that a third party made from its own keys.
Forged(b) ==
  {[b EXCEPT !.preKey = MalloryKey],
   [b EXCEPT !.preKey = b.identityKey],
   [b EXCEPT !.signature = BadSignature],
   [b EXCEPT !.signature = Sign(b.preKey, MalloryKey)],
   [b EXCEPT !.identityKey = MalloryKey],
   [b EXCEPT !.identityKey = MalloryKey, !.preKey = MalloryKey,
             !.signature = Sign(MalloryKey, MalloryKey)]}

\* The bundles the relay may hand out: those the initialised instances
\* register, as they are or forged.
Bundles ==
  LET published == {Register(q) : q \in {q \in Parties : identityKeyPair[q] # NoKey}}
  IN  published \cup UNION {Forged(b) : b \in published}

\* The bundle of a peer that initialised once, as an instance that is given
\* a bundle from outside sees it, and the same with its preKey replaced.
PeerBundle(r) ==
  RegistrationBundle(r, GenerateKeyPair(r, 1), GenerateKeyPair(r, 2),
                     [i \in 1..NumOneTimePreKeys |-> GenerateKeyPair(r, 2 + i)])

PeerBundles(r) == {PeerBundle(r), [PeerBundle(r) EXCEPT !.preKey = MalloryKey]}

(***************************************************************************)
(* Sessions.                                                               *)
(***************************************************************************)
\* crypto.randomBytes(16).toString('hex') and crypto.randomBytes(32) in the
\* n-th establishSession call that gets as far as drawing them
RandomId(n) == n

RandomSecret(n) == n

\* The history of a session of an instance: where the record came from, the
\* bundle it was established from, the record as it was first stored, the
\* calls that succeeded on it since and the encryptMessage calls that threw
\* after the counter update.
NewAudit(session, origin, bundle) ==
  [origin |-> origin, bundle |-> bundle, init |-> session, log |-> <<>>,
   encFail |-> 0]

\* establishSession(recipientId, recipientBundle) on instance p
Establish(p, recipientId, bundle) ==
  LET res == EstablishSession(sessionKeys[p], recipientId, bundle,
                              RandomId(nextId), RandomSecret(nextId))
      ok == res.outcome = "ok"
  IN  /\ ok => Calls < MaxCalls
      /\ sessionKeys' = [sessionKeys EXCEPT ![p] = res.sessionKeys]
      /\ nextId' = IF ok THEN nextId + 1 ELSE nextId
      /\ audit' = IF ok
                  THEN [audit EXCEPT ![p] =
                          [s \in DOMAIN res.sessionKeys |->
                             IF s \in DOMAIN audit[p] THEN audit[p][s]
                             ELSE NewAudit(res.sessionKeys[s], "establishSession",
                                           bundle)]]
                  ELSE audit
      /\ UNCHANGED <<keyring, sent, outside>>

\* The other end of a session is given the session as instance q established
\* it: sessionKeys is a public Map, and the claims about the two ends of a
\* session start from both holding the same record under the same sessionId.
Provision(p, q, sid) ==
  /\ Calls < MaxCalls
  /\ p # q
  /\ sid \in DOMAIN sessionKeys[q]
  /\ sid \notin DOMAIN sessionKeys[p]
  /\ sessionKeys[q][sid] = audit[q][sid].init
  /\ sessionKeys' = [sessionKeys EXCEPT ![p] =
       [s \in DOMAIN @ \cup {sid} |-> IF s = sid THEN sessionKeys[q][sid] ELSE @[s]]]
  /\ audit' = [audit EXCEPT ![p] =
       [s \in DOMAIN @ \cup {sid} |->
          IF s = sid
          THEN NewAudit(sessionKeys[q][sid], "provision", audit[q][sid].bundle)
          ELSE @[s]]]
  /\ UNCHANGED <<keyring, nextId, sent, outside>>

\* every sessionId some instance holds, and one that none holds
SessionIds == UNION {DOMAIN sessionKeys[p] : p \in Parties} \cup {UnknownSid}

\* crypto.randomBytes(16) in encryptMessage: the iv of the package that
\* instance p makes with this counter on this session
RandomIv(p, sid, counter) == <<p, sid[1], counter>>

\* an iv no encryptMessage call drew
OtherIv == <<"mallory", 0, 0>>

Entry(op, package, text, pre, post) ==
  [op |-> op, package |-> package, text |-> text, pre |-> pre, post |-> post]

\* the call encryptMessage(sessionId, message) on instance p in this state
EncryptCall(p, sid, message) ==
  EncryptMessage(sessionKeys[p], sid, message,
                 RandomIv(p, sid, IF sid \in DOMAIN sessionKeys[p]
                                  THEN sessionKeys[p][sid].messageCounter + 1
                                  ELSE 0))

\* encryptMessage(sessionId, message) on instance p
Encrypt(p, sid, message) ==
  LET res == EncryptCall(p, sid, message)
  IN  /\ res.sessionKeys # sessionKeys[p] => Calls < MaxCalls
      /\ sessionKeys' = [sessionKeys EXCEPT ![p] = res.sessionKeys]
      /\ sent' = IF res.outcome = "ok" THEN sent \cup {res.result} ELSE sent
      /\ audit' =
           IF res.outcome = "ok"
           THEN [audit EXCEPT ![p][sid].log =
                   Append(@, Entry("encryptMessage", res.result, message.units,
                                   sessionKeys[p][sid], res.sessionKeys[sid]))]
           ELSE IF res.outcome = InvalidArgType
           THEN [audit EXCEPT ![p][sid].encFail = @ + 1]
           ELSE audit
      /\ UNCHANGED <<keyring, nextId, outside>>

\* A ciphertext with a bit changed.
Flip(ciphertext) == [ciphertext EXCEPT !.flipped = ~@]

\* A package with exactly one of ciphertext, iv, counter and sessionId changed.
TamperOne(v) ==
  {[v EXCEPT !.ciphertext = c] :
     c \in ({w.ciphertext : w \in sent} \cup {Flip(v.ciphertext)}) \ {v.ciphertext}}
  \cup {[v EXCEPT !.iv = OtherIv]}
  \cup {[v EXCEPT !.counter = c] : c \in {v.counter - 1, v.counter + 1}}
  \cup {[v EXCEPT !.sessionId = s] : s \in SessionIds \ {v.sessionId}}

\* decryptMessage(messagePackage) on instance p, for a package some
\* encryptMessage returned, as it is or with one field changed.  The cipher
\* refusing the bytes (padOk false) is a call of its own only where the
\* cipher is reached with bytes it was not keyed for.
Decrypt(p, package, padOk) ==
  LET res == DecryptMessage(sessionKeys[p], package, padOk)
      sid == package.sessionId
  IN  /\ padOk \/ res.outcome = BadDecrypt
      /\ res.sessionKeys # sessionKeys[p] => Calls < MaxCalls
      /\ sessionKeys' = [sessionKeys EXCEPT ![p] = res.sessionKeys]
      /\ audit' =
           IF res.outcome = "ok"
           THEN [audit EXCEPT ![p][sid].log =
                   Append(@, Entry("decryptMessage", package, res.result,
                                   sessionKeys[p][sid], res.sessionKeys[sid]))]
           ELSE audit
      /\ UNCHANGED <<keyring, nextId, sent, outside>>

\* the packages an instance may be given
Incoming == sent \cup UNION {TamperOne(v) : v \in sent}

(***************************************************************************)
(* The session protocol between instances that are handed the bundle of    *)
(* their peer.                                                             *)
(***************************************************************************)
\* the packages decryptMessage has accepted on a session of instance p
Accepted(p, sid) ==
  {audit[p][sid].log[i].package :
     i \in {i \in DOMAIN audit[p][sid].log :
              audit[p][sid].log[i].op = "decryptMessage"}}

\* the packages encryptMessage has returned on a session of instance p
Produced(p, sid) ==
  {audit[p][sid].log[i].package :
     i \in {i \in DOMAIN audit[p][sid].log :
              audit[p][sid].log[i].op = "encryptMessage"}}

Next ==
  \/ \E p \in Parties : \E r \in Parties \ {p} : \E b \in PeerBundles(r) :
       Establish(p, r, b)
  \/ \E p \in Parties, q \in Parties, sid \in SessionIds : Provision(p, q, sid)
  \/ \E p \in Parties, sid \in SessionIds, m \in Messages : Encrypt(p, sid, m)
  \/ \E p \in Parties, t \in Incoming, padOk \in BOOLEAN : Decrypt(p, t, padOk)

Spec == Init /\ [][Next]_vars

(***************************************************************************)
(* Key rings, registration and establishment from the registered bundles.  *)
(***************************************************************************)
NextKeys ==
  \/ \E p \in Parties : Initialize(p)
  \/ \E p \in Parties, b \in Bundles : \E r \in Parties \ {p} : Establish(p, r, b)

SpecKeys == Init /\ [][NextKeys]_vars

(***************************************************************************)
(* The relay server.  Each request is handled in one piece, in the 'end'    *)
(* callback of the request.                                                *)
(***************************************************************************)
\* serverStorage.messages[userId] || []
QueueOf(queues, userId) == IF userId \in DOMAIN queues THEN queues[userId] ELSE <<>>

\* the /send-message handler: the queues after it
SendMessageHandler(queues, message) ==
  [u \in DOMAIN queues \cup {message.recipient} |->
     IF u = message.recipient THEN Append(QueueOf(queues, u), message)
     ELSE queues[u]]

\* the /get-messages handler, were it to leave the queue as it is
GetMessagesKeeping(queues, userId) ==
  [messages |-> QueueOf(queues, userId),
   queues |-> [u \in DOMAIN queues \cup {userId} |-> QueueOf(queues, u)]]

\* the /get-messages handler: the messages of the response and the queues
\* after it
GetMessagesHandler(queues, userId) ==
  [messages |-> QueueOf(queues, userId),
   queues |-> [u \in DOMAIN queues \cup {userId} |->
                 IF u = userId THEN <<>> ELSE queues[u]]]

\* the requests the relay has handled so far
RECURSIVE Requests(_)
Requests(us) ==
  IF us = {} THEN 0
  ELSE LET u == CHOOSE u \in us : TRUE
       IN  Len(relayLog[u].enqueued) + Len(relayLog[u].drains) + Requests(us \ {u})

\* the bodies of the messages posted to the relay
Bodies == {"x", "y"}

\* a /send-message request
PostSendMessage(message) ==
  /\ Requests(Parties) < MaxRequests
  /\ messages' = SendMessageHandler(messages, message)
  /\ relayLog' = [relayLog EXCEPT ![message.recipient].enqueued = Append(@, message)]
  /\ UNCHANGED <<keyring, sessionKeys, nextId, sent, audit, users, client>>

\* a /get-messages request
PostGetMessages(userId) ==
  LET res == GetMessagesHandler(messages, userId)
  IN  /\ Requests(Parties) < MaxRequests
      /\ messages' = res.queues
      /\ relayLog' = [relayLog EXCEPT ![userId].drains = Append(@, res.messages)]
      /\ UNCHANGED <<keyring, sessionKeys, nextId, sent, audit, users, client>>

NextRelay ==
  \/ \E u \in Parties, v \in Parties, b \in Bodies :
       PostSendMessage([recipient |-> u, sender |-> v, body |-> b])
  \/ \E u \in Parties : PostGetMessages(u)

SpecRelay == Init /\ [][NextRelay]_vars

(***************************************************************************)
(* The client.  An operation runs in one piece from one await of a relay   *)
(* request to the next; the request is handled by the relay, or fails, in  *)
(* the step in which the operation resumes.                                *)
(***************************************************************************)
\* `User ${recipientId} not found`, thrown by startSession
UserNotFound == "User not found"

\* `Request error: ...`, the rejection of makeRequest
RequestError == "Request error"

ClientMessages == {Str(<<"a", "H", "L">>), NotAString}

\* the /register handler: the users after it
RegisterHandler(registered, userData) ==
  [u \in DOMAIN registered \cup {userData.userId} |->
     IF u = userData.userId THEN userData ELSE registered[u]]

\* What an operation of a client works on: the session map and the history
\* of its instance, the random values drawn and the packages made so far, its
\* activeSessions and its session file; with them the core errors raised in
\* the operation, whether a call of the operation changed a session that was
\* there, and the outcome, sessionId and package of the latest core call.
Context(c, raised, changed) ==
  [keys |-> sessionKeys[c], audit |-> audit[c], nextId |-> nextId, sent |-> sent,
   active |-> activeSessions[c], file |-> files[c],
   raised |-> raised, changed |-> changed,
   outcome |-> "ok", sid |-> UnknownSid, package |-> NoResult, text |-> <<>>]

Commit(c, ctx) ==
  /\ sessionKeys' = [sessionKeys EXCEPT ![c] = ctx.keys]
  /\ audit' = [audit EXCEPT ![c] = ctx.audit]
  /\ nextId' = ctx.nextId
  /\ sent' = ctx.sent
  /\ activeSessions' = [activeSessions EXCEPT ![c] = ctx.active]
  /\ files' = [files EXCEPT ![c] = ctx.file]

\* saveSessionsToFile()
SaveSessionsToFile(ctx) ==
  [ctx EXCEPT !.file = [sessions |-> ctx.active, sessionKeys |-> ctx.keys,
                        exists |-> TRUE]]

\* loadSessionsFromFile(): the keys of the sessions come back as JSON.parse
\* gives them
LoadSessionsFromFile(ctx) ==
  IF ~ctx.file.exists THEN ctx
  ELSE [ctx EXCEPT
          !.active = ctx.file.sessions,
          !.keys = [s \in DOMAIN ctx.file.sessionKeys |->
                      [ctx.file.sessionKeys[s] EXCEPT
                         !.encryptionKey = ParsedJson(@),
                         !.macKey = ParsedJson(@),
                         !.chainKey = ParsedJson(@)]]]

\* this.messaging.establishSession(recipientId, recipientBundle)
EstablishIn(ctx, recipientId, bundle) ==
  LET res == EstablishSession(ctx.keys, recipientId, bundle, RandomId(ctx.nextId),
                              RandomSecret(ctx.nextId))
  IN  IF res.outcome = "ok"
      THEN [ctx EXCEPT
              !.keys = res.sessionKeys,
              !.audit = [s \in DOMAIN ctx.audit \cup {res.result} |->
                           IF s = res.result
                           THEN NewAudit(res.sessionKeys[s], "establishSession", bundle)
                           ELSE ctx.audit[s]],
              !.nextId = ctx.nextId + 1,
              !.outcome = "ok",
              !.sid = res.result]
      ELSE [ctx EXCEPT !.raised = ctx.raised \cup {res.outcome},
                       !.outcome = res.outcome]

\* this.activeSessions.set(userId, sessionId); this.saveSessionsToFile()
RememberSession(ctx, userId) ==
  SaveSessionsToFile(
    [ctx EXCEPT !.active = [u \in DOMAIN ctx.active \cup {userId} |->
                              IF u = userId THEN ctx.sid ELSE ctx.active[u]]])

\* startSession(recipientId), from the response of /get-user on
StartSession(ctx, recipientId, bundle) ==
  LET est == EstablishIn(ctx, recipientId, bundle)
  IN  IF est.outcome = "ok" THEN RememberSession(est, recipientId)
      ELSE [est EXCEPT !.outcome = UserNotFound]

\* this.messaging.encryptMessage(sessionId, message)
EncryptIn(ctx, c, sid, message) ==
  LET res == EncryptMessage(ctx.keys, sid, message,
                            RandomIv(c, sid, IF sid \in DOMAIN ctx.keys
                                             THEN ctx.keys[sid].messageCounter + 1
                                             ELSE 0))
  IN  [ctx EXCEPT
         !.keys = res.sessionKeys,
         !.sent = IF res.outcome = "ok" THEN ctx.sent \cup {res.result} ELSE ctx.sent,
         !.audit =
           IF res.outcome = "ok"
           THEN [ctx.audit EXCEPT ![sid].log =
                   Append(@, Entry("encryptMessage", res.result, message.units,
                                   ctx.keys[sid], res.sessionKeys[sid]))]
           ELSE IF res.outcome = InvalidArgType
           THEN [ctx.audit EXCEPT ![sid].encFail = @ + 1]
           ELSE ctx.audit,
         !.changed = ctx.changed \/ res.sessionKeys # ctx.keys,
         !.raised = IF res.outcome = "ok" THEN ctx.raised
                    ELSE ctx.raised \cup {res.outcome},
         !.outcome = res.outcome,
         !.package = res.result]

\* Date.now()
DateNow(ctx) == Cardinality(ctx.sent)

\* encryptedMessage.sender = ...; .recipient = ...; .timestamp = ...: the
\* message as it is posted to the relay
Posted(ctx, c, recipientId) ==
  [sessionId |-> ctx.package.sessionId,
   counter |-> ctx.package.counter,
   iv |-> ctx.package.iv,
   ciphertext |-> ctx.package.ciphertext,
   mac |-> ctx.package.mac,
   sender |-> c,
   recipient |-> recipientId,
   timestamp |-> DateNow(ctx)]

\* The message of the relay as decryptMessage sees it: the fields of the
\* package and, with them, the fields the client added.
AsPackage(message) ==
  [sessionId |-> message.sessionId,
   counter |-> message.counter,
   iv |-> message.iv,
   ciphertext |-> message.ciphertext,
   mac |-> message.mac,
   meta |-> [sender |-> message.sender, recipient |-> message.recipient,
             timestamp |-> message.timestamp]]

\* this.messaging.decryptMessage(message)
DecryptIn(ctx, message) ==
  LET package == AsPackage(message)
      sid == package.sessionId
      res == DecryptMessage(ctx.keys, package, TRUE)
  IN  [ctx EXCEPT
         !.keys = res.sessionKeys,
         !.audit =
           IF res.outcome = "ok"
           THEN [ctx.audit EXCEPT ![sid].log =
                   Append(@, Entry("decryptMessage", package, res.result,
                                   ctx.keys[sid], res.sessionKeys[sid]))]
           ELSE ctx.audit,
         !.changed = ctx.changed \/ res.sessionKeys # ctx.keys,
         !.raised = IF res.outcome = "ok" THEN ctx.raised
                    ELSE ctx.raised \cup {res.outcome},
         !.outcome = res.outcome,
         !.text = res.result]

\* The loop of receiveMessages over the messages drained, up to its end or to
\* the message whose sender the client has no session for (the await of
\* /get-user): what is left to do, what was decrypted, and the context.
RECURSIVE ProcessMessages(_, _, _)
ProcessMessages(ctx, todo, got) ==
  IF todo = <<>> \/ Head(todo).sender \notin DOMAIN ctx.active
  THEN [ctx |-> ctx, todo |-> todo, got |-> got]
  ELSE LET dec == DecryptIn(ctx, Head(todo))
       IN  IF dec.outcome = "ok"
           THEN ProcessMessages(SaveSessionsToFile(dec), Tail(todo),
                                Append(got, [from |-> Head(todo).sender,
                                             content |-> dec.text,
                                             timestamp |-> Head(todo).timestamp]))
           ELSE ProcessMessages(dec, Tail(todo), got)

Finished(outcome, ctx, transport, drained, result) ==
  [outcome |-> outcome, raised |-> ctx.raised, changed |-> ctx.changed,
   transport |-> transport, drained |-> drained, result |-> result]

Finish(c, operation, record) ==
  /\ tasks' = [tasks EXCEPT ![c][operation] = Idle]
  /\ done' = [done EXCEPT ![c][operation] = record]

Suspend(c, operation, task) ==
  /\ tasks' = [tasks EXCEPT ![c][operation] = task]
  /\ UNCHANGED done

\* initialize(), up to the await of /register
InitializeStart(c) ==
  LET ctx == LoadSessionsFromFile(Context(c, {}, FALSE))
      identity == GenerateKeyPair(c, generated[c] + 1)
      preKey == GenerateKeyPair(c, generated[c] + 2)
      oneTime == oneTimePreKeys[c] \o
                   [i \in 1..NumOneTimePreKeys |-> GenerateKeyPair(c, generated[c] + 2 + i)]
  IN  /\ tasks[c]["initialize"] = Idle
      /\ started < MaxOps
      /\ started' = started + 1
      /\ identityKeyPair' = [identityKeyPair EXCEPT ![c] = identity]
      /\ preKeyPair' = [preKeyPair EXCEPT ![c] = preKey]
      /\ oneTimePreKeys' = [oneTimePreKeys EXCEPT ![c] = oneTime]
      /\ generated' = [generated EXCEPT ![c] = @ + NumOneTimePreKeys + 2]
      /\ Commit(c, ctx)
      /\ Suspend(c, "initialize",
                 [pc |-> "registering",
                  bundle |-> RegistrationBundle(c, identity, preKey, oneTime)])
      /\ UNCHANGED relay

\* initialize(), from the response of /register on
InitializeRegistered(c, ok) ==
  LET task == tasks[c]["initialize"]
      ctx == Context(c, {}, FALSE)
  IN  /\ task.pc = "registering"
      /\ users' = IF ok THEN RegisterHandler(users, task.bundle) ELSE users
      /\ Finish(c, "initialize",
                Finished(IF ok THEN "ok" ELSE RequestError, ctx, ~ok, <<>>, <<>>))
      /\ UNCHANGED <<keyring, sessionKeys, nextId, sent, audit, messages, relayLog,
                     activeSessions, files, started>>

\* sendMessage, from encryptMessage to the await of /send-message
EncryptAndPost(c, call, ctx, sid, recipientId, message) ==
  LET enc == EncryptIn(ctx, c, sid, message)
  IN  /\ Commit(c, enc)
      /\ IF enc.outcome = "ok"
         THEN Suspend(c, call,
                      [pc |-> "sending", recipientId |-> recipientId,
                       posted |-> Posted(enc, c, recipientId),
                       raised |-> enc.raised, changed |-> enc.changed])
         ELSE Finish(c, call, Finished(enc.outcome, enc, FALSE, <<>>, <<>>))

\* sendMessage(recipientId, message), up to its first await
SendStart(c, call, recipientId, message) ==
  /\ tasks[c][call] = Idle
  /\ call = "send2" => tasks[c]["send"] # Idle
  /\ started < MaxOps
  /\ started' = started + 1
  /\ IF recipientId \in DOMAIN activeSessions[c]
     THEN EncryptAndPost(c, call, Context(c, {}, FALSE),
                         activeSessions[c][recipientId], recipientId, message)
     ELSE /\ Suspend(c, call, [pc |-> "fetching", recipientId |-> recipientId,
                               message |-> message])
          /\ UNCHANGED <<sessionKeys, nextId, sent, audit, activeSessions, files>>
  /\ UNCHANGED <<keyring, relay>>

\* sendMessage, from the response of /get-user in startSession on
SendFetched(c, call, ok) ==
  LET task == tasks[c][call]
      ctx == Context(c, {}, FALSE)
      found == ok /\ task.recipientId \in DOMAIN users
      st == StartSession(ctx, task.recipientId, users[task.recipientId])
  IN  /\ task.pc = "fetching"
      /\ IF ~found
         THEN /\ Finish(c, call, Finished(UserNotFound, ctx, TRUE, <<>>, <<>>))
              /\ UNCHANGED <<sessionKeys, nextId, sent, audit, activeSessions, files>>
         ELSE IF st.outcome # "ok"
         THEN /\ Finish(c, call, Finished(st.outcome, st, FALSE, <<>>, <<>>))
              /\ Commit(c, st)
         ELSE EncryptAndPost(c, call, st, st.sid, task.recipientId, task.message)
      /\ UNCHANGED <<keyring, relay, started>>

\* sendMessage, from the response of /send-message on
SendDelivered(c, call, ok) ==
  LET task == tasks[c][call]
      ctx == Context(c, task.raised, task.changed)
  IN  /\ task.pc = "sending"
      /\ IF ok
         THEN /\ messages' = SendMessageHandler(messages, task.posted)
              /\ relayLog' = [relayLog EXCEPT ![task.recipientId].enqueued =
                                Append(@, task.posted)]
              /\ Commit(c, SaveSessionsToFile(ctx))
              /\ Finish(c, call, Finished("ok", ctx, FALSE, <<>>, <<>>))
         ELSE /\ UNCHANGED <<messages, relayLog, sessionKeys, nextId, sent, audit,
                             activeSessions, files>>
              /\ Finish(c, call, Finished(RequestError, ctx, TRUE, <<>>, <<>>))
      /\ UNCHANGED <<keyring, users, started>>

\* receiveMessages, from a point of its loop to the next await or to its end
Receive(c, ctx, todo, got, transport, drained) ==
  LET loop == ProcessMessages(ctx, todo, got)
  IN  /\ Commit(c, loop.ctx)
      /\ IF loop.todo = <<>>
         THEN Finish(c, "receive",
                     Finished("ok", loop.ctx, transport, drained, loop.got))
         ELSE Suspend(c, "receive",
                      [pc |-> "fetchingSender", todo |-> loop.todo, got |-> loop.got,
                       raised |-> loop.ctx.raised, changed |-> loop.ctx.changed,
                       transport |-> transport, drained |-> drained])

\* receiveMessages(), up to the await of /get-messages
ReceiveStart(c) ==
  /\ tasks[c]["receive"] = Idle
  /\ started < MaxOps
  /\ started' = started + 1
  /\ Suspend(c, "receive", [pc |-> "draining"])
  /\ UNCHANGED <<keyring, relay, sessionKeys, nextId, sent, audit, activeSessions, files>>

\* receiveMessages, from the response of /get-messages on
ReceiveDrained(c, ok) ==
  LET res == GetMessagesHandler(messages, c)
      ctx == Context(c, {}, FALSE)
  IN  /\ tasks[c]["receive"].pc = "draining"
      /\ IF ok
         THEN /\ messages' = res.queues
              /\ relayLog' = [relayLog EXCEPT ![c].drains = Append(@, res.messages)]
              /\ Receive(c, ctx, res.messages, <<>>, FALSE, res.messages)
         ELSE /\ UNCHANGED <<messages, relayLog, sessionKeys, nextId, sent, audit,
                             activeSessions, files>>
              /\ Finish(c, "receive", Finished("ok", ctx, TRUE, <<>>, <<>>))
      /\ UNCHANGED <<keyring, users, started>>

\* receiveMessages, from the response of /get-user for the sender of a
\* message on
ReceiveFetched(c, ok) ==
  LET task == tasks[c]["receive"]
      ctx == Context(c, task.raised, task.changed)
      sender == Head(task.todo).sender
      found == ok /\ sender \in DOMAIN users
      est == EstablishIn(ctx, sender, users[sender])
  IN  /\ task.pc = "fetchingSender"
      /\ IF ~found
         THEN Receive(c, ctx, Tail(task.todo), task.got, TRUE, task.drained)
         ELSE IF est.outcome # "ok"
         THEN Receive(c, est, Tail(task.todo), task.got, task.transport, task.drained)
         ELSE Receive(c, RememberSession(est, sender), task.todo, task.got,
                      task.transport, task.drained)
      /\ UNCHANGED <<keyring, relay, started>>

\* A /register request of a third party: the bundle of a registered user
\* with its preKey replaced.
PostRegister(userId) ==
  /\ userId \in DOMAIN users
  /\ users[userId].preKey # MalloryKey
  /\ started < MaxOps
  /\ started' = started + 1
  /\ users' = RegisterHandler(users, [users[userId] EXCEPT !.preKey = MalloryKey])
  /\ UNCHANGED <<keyring, sessionKeys, nextId, sent, audit, messages, relayLog,
                 activeSessions, files, tasks, done>>

NextClient ==
  \/ \E c \in Parties : InitializeStart(c)
  \/ \E c \in Parties, ok \in BOOLEAN : InitializeRegistered(c, ok)
  \/ \E c \in Parties, call \in Sends : \E r \in Parties \ {c} :
       \E m \in ClientMessages : SendStart(c, call, r, m)
  \/ \E c \in Parties, call \in Sends, ok \in BOOLEAN : SendFetched(c, call, ok)
  \/ \E c \in Parties, call \in Sends, ok \in BOOLEAN : SendDelivered(c, call, ok)
  \/ \E c \in Parties : ReceiveStart(c)
  \/ \E c \in Parties, ok \in BOOLEAN : ReceiveDrained(c, ok)
  \/ \E c \in Parties, ok \in BOOLEAN : ReceiveFetched(c, ok)
  \/ \E u \in Parties : PostRegister(u)

SpecClient == Init /\ [][NextClient]_vars

(***************************************************************************)
(* Properties.                                                             *)
(***************************************************************************)
Log(o) == audit[o[1]][o[2]].log

Session(o) == sessionKeys[o[1]][o[2]]

\* the key material and the counter of a session
KeyState(session) ==
  <<session.encryptionKey, session.macKey, session.chainKey, session.messageCounter>>

\* the two ends of a session: the same sessionId held by two instances
Ends == {e \in Objects \X Objects : e[1][1] # e[2][1] /\ e[1][2] = e[2][2]}

OnlyOp(o, op) ==
  /\ audit[o[1]][o[2]].encFail = 0
  /\ \A i \in DOMAIN Log(o) : Log(o)[i].op = op

\* C1: a package that decryptMessage has accepted on a session is, whenever
\* it is given to decryptMessage again, refused with the replay error, and the
\* call leaves every session of the instance as it was.
C1_ReplayRejected ==
  \A o \in Objects : \A package \in Accepted(o[1], o[2]) : \A padOk \in BOOLEAN :
    LET res == DecryptMessage(sessionKeys[o[1]], package, padOk)
    IN  /\ res.outcome = ReplayDetected
        /\ res.sessionKeys = sessionKeys[o[1]]

\* a session that accepted a package and on which a later call succeeded
C1_Witness ==
  \E o \in Objects : \E i \in DOMAIN Log(o) :
    i < Len(Log(o)) /\ Log(o)[i].op = "decryptMessage"

AcceptedIncreasing ==
  \A o \in Objects : \A i, j \in DOMAIN Log(o) :
    (i < j /\ Log(o)[i].op = "decryptMessage" /\ Log(o)[j].op = "decryptMessage")
      => Log(o)[i].package.counter < Log(o)[j].package.counter

CounterNeverDecreases ==
  \A p \in Parties : \A sid \in DOMAIN sessionKeys[p] :
    /\ sid \in DOMAIN sessionKeys'[p]
    /\ sessionKeys'[p][sid].messageCounter >= sessionKeys[p][sid].messageCounter

\* C2: on every session the counters of the packages decryptMessage accepted
\* are strictly increasing in the order of acceptance, and no call, failing
\* or not, lowers session.messageCounter.
C2_CounterMonotonic == []AcceptedIncreasing /\ [][CounterNeverDecreases]_vars

\* a session that accepted two packages
C2_Witness ==
  \E o \in Objects : \E i, j \in DOMAIN Log(o) :
    i < j /\ Log(o)[i].op = "decryptMessage" /\ Log(o)[j].op = "decryptMessage"

\* encryptMessage on the first end followed by decryptMessage of the package
\* on the second end returns the code units of the message
RoundTrips(e, message) ==
  LET enc == EncryptCall(e[1][1], e[1][2], message)
  IN  /\ enc.outcome = "ok"
      /\ \A padOk \in BOOLEAN :
           LET dec == DecryptMessage(sessionKeys[e[2][1]], enc.result, padOk)
           IN  dec.outcome = "ok" /\ dec.result = message.units

Synchronised(e) == KeyState(Session(e[1])) = KeyState(Session(e[2]))

\* C3 as claimed: between two ends of a session with the same keys and
\* counter, every string comes back from decryptMessage exactly as it was
\* given to encryptMessage.
C3_RoundTripAnyString ==
  \A e \in Ends : Synchronised(e) =>
    \A m \in {m \in Messages : m.type = "string"} : RoundTrips(e, m)

\* C3, amended: between two ends of a session with the same keys and counter,
\* every string without an unpaired surrogate comes back from decryptMessage
\* exactly as it was given to encryptMessage.
C3_RoundTrip ==
  \A e \in Ends : Synchronised(e) =>
    \A m \in {m \in Messages : m.type = "string" /\ WellFormed(m.units)} :
      RoundTrips(e, m)

\* the second end has decrypted, from the state the first end encrypted in, a
\* package of the first end and returned the string given, after both ends
\* had moved on from the state the session was established in
C3_Witness ==
  \E e \in Ends : \E i \in DOMAIN Log(e[1]), j \in DOMAIN Log(e[2]) :
    /\ Log(e[1])[i].op = "encryptMessage"
    /\ Log(e[2])[j].op = "decryptMessage"
    /\ Log(e[1])[i].package = Log(e[2])[j].package
    /\ KeyState(Log(e[1])[i].pre) = KeyState(Log(e[2])[j].pre)
    /\ Log(e[1])[i].pre # audit[e[1][1]][e[1][2]].init
    /\ WellFormed(Log(e[1])[i].text)
    /\ Log(e[2])[j].text = Log(e[1])[i].text

\* the first end has only encrypted and the second only decrypted since both
\* held the session as it was established
SenderAndReceiver(e) ==
  /\ audit[e[1][1]][e[1][2]].init = audit[e[2][1]][e[2][2]].init
  /\ OnlyOp(e[1], "encryptMessage")
  /\ OnlyOp(e[2], "decryptMessage")

\* C4: when one end of a session only encrypts and the other only decrypts,
\* both starting from the session as established, the k-th package accepted is
\* the k-th package made, the receiver's keys and counter after its k-th
\* decryptMessage are the sender's after its k-th encryptMessage, and the
\* next package in order is accepted.
C4_RatchetLockstep ==
  \A e \in Ends : SenderAndReceiver(e) =>
    /\ Len(Log(e[2])) <= Len(Log(e[1]))
    /\ \A k \in DOMAIN Log(e[2]) :
         /\ Log(e[2])[k].package = Log(e[1])[k].package
         /\ KeyState(Log(e[2])[k].post) = KeyState(Log(e[1])[k].post)
    /\ Len(Log(e[2])) < Len(Log(e[1])) =>
         \A padOk \in BOOLEAN :
           DecryptMessage(sessionKeys[e[2][1]],
                          Log(e[1])[Len(Log(e[2])) + 1].package, padOk).outcome = "ok"

\* a sender that encrypted twice and a receiver that decrypted both packages
C4_Witness ==
  \E e \in Ends : SenderAndReceiver(e) /\ Len(Log(e[2])) >= 2

\* the error decryptMessage is to fail with on a package of which one field
\* was changed
Rejection(sessions, package) ==
  IF package.sessionId \notin DOMAIN sessions THEN SessionNotFound
  ELSE IF package.counter > sessions[package.sessionId].messageCounter
  THEN MacMismatch
  ELSE ReplayDetected

\* the packages an instance would accept now
Acceptable(p) ==
  {v \in sent : \A padOk \in BOOLEAN :
     DecryptMessage(sessionKeys[p], v, padOk).outcome = "ok"}

\* C5 as claimed: a package the receiver would accept, with one of
\* ciphertext, iv, counter and sessionId changed, is refused with the MAC
\* mismatch error before any decryption.
C5_TamperIsMacMismatch ==
  \A p \in Parties : \A v \in Acceptable(p) : \A t \in TamperOne(v) :
    \A padOk \in BOOLEAN :
      LET res == DecryptMessage(sessionKeys[p], t, padOk)
      IN  res.outcome = MacMismatch /\ ~res.cipherUsed

\* C5, amended: a package the receiver would accept, with one of ciphertext,
\* iv, counter and sessionId changed, is refused before any decryption and no
\* session changes; the error is MAC mismatch when the package still names a
\* session of the receiver with a counter above that session's
\* messageCounter, the replay error when its counter is not above it, and
\* session not found when it names no session of the receiver.
C5_TamperRejected ==
  \A p \in Parties : \A v \in Acceptable(p) : \A t \in TamperOne(v) :
    \A padOk \in BOOLEAN :
      LET res == DecryptMessage(sessionKeys[p], t, padOk)
      IN  /\ res.outcome = Rejection(sessionKeys[p], t)
          /\ (t.sessionId = v.sessionId /\ t.counter = v.counter)
               => res.outcome = MacMismatch
          /\ ~res.cipherUsed
          /\ res.sessionKeys = sessionKeys[p]

\* an instance with two sessions that would accept a package, and changes of
\* it that are refused in each of the three ways
C5_Witness ==
  \E p \in Parties : \E v \in Acceptable(p) :
    /\ Cardinality(DOMAIN sessionKeys[p]) >= 2
    /\ \A error \in {MacMismatch, ReplayDetected, SessionNotFound} :
         \E t \in TamperOne(v) :
           DecryptMessage(sessionKeys[p], t, TRUE).outcome = error
    /\ \E t \in TamperOne(v) :
         /\ t.sessionId \in DOMAIN sessionKeys[p] \ {v.sessionId}
         /\ DecryptMessage(sessionKeys[p], t, TRUE).outcome = MacMismatch

\* the session as the latest successful call on it left it
Committed(o) ==
  IF Log(o) = <<>> THEN audit[o[1]][o[2]].init ELSE Log(o)[Len(Log(o))].post

\* C6: a session is as the latest successful call on it left it: the
\* encryptMessage and decryptMessage calls that failed have changed neither
\* its counter nor its keys.
C6_FailureAtomicity ==
  \A o \in Objects : KeyState(Session(o)) = KeyState(Committed(o))

\* C7: the ratchet steps applied to a session are as many as the
\* encryptMessage and decryptMessage calls that succeeded on it, and no two
\* packages made on it were encrypted under the same key or authenticated
\* under the same key.
C7_OneRatchetStepPerMessage ==
  \A o \in Objects :
    /\ Generation(Session(o).chainKey)
         - Generation(audit[o[1]][o[2]].init.chainKey) = Len(Log(o))
    /\ \A v, w \in Produced(o[1], o[2]) :
         v # w => (v.ciphertext.key # w.ciphertext.key /\ v.mac.key # w.mac.key)

\* a session that made two packages and accepted one
C7_Witness ==
  \E o \in Objects :
    /\ Cardinality(Produced(o[1], o[2])) >= 2
    /\ Accepted(o[1], o[2]) # {}

\* C8: on a session on which nothing but successful encryptMessage calls
\* were made since it was established, the k-th package has counter k, which
\* is session.messageCounter as the call returns.
C8_SendCounters ==
  \A o \in Objects :
    (audit[o[1]][o[2]].init.messageCounter = 0 /\ OnlyOp(o, "encryptMessage")) =>
      \A k \in DOMAIN Log(o) :
        /\ Log(o)[k].package.counter = k
        /\ Log(o)[k].post.messageCounter = k

\* a session on which three encryptMessage calls succeeded and nothing else
C8_Witness ==
  \E o \in Objects : OnlyOp(o, "encryptMessage") /\ Len(Log(o)) >= 3

\* the signature of a bundle is a signature of its preKey under its identityKey
ValidSignature(bundle) ==
  bundle.identityKey # NoKey /\ bundle.signature = Sign(bundle.preKey, bundle.identityKey)

\* C9: establishSession on a bundle whose signature is no signature of its
\* preKey under its identityKey throws the invalid signature error and leaves
\* the session map as it was; on a bundle whose signature is one, it adds one
\* session, with messageCounter 0, under the sessionId it returns and leaves
\* every other session as it was.
C9_SignatureGate ==
  \A p \in Parties : \A r \in Parties : \A b \in Bundles :
    LET res == EstablishSession(sessionKeys[p], r, b, RandomId(nextId),
                                RandomSecret(nextId))
    IN  IF ValidSignature(b)
        THEN /\ res.outcome = "ok"
             /\ res.result \notin DOMAIN sessionKeys[p]
             /\ DOMAIN res.sessionKeys = DOMAIN sessionKeys[p] \cup {res.result}
             /\ res.sessionKeys[res.result].messageCounter = 0
             /\ \A s \in DOMAIN sessionKeys[p] : res.sessionKeys[s] = sessionKeys[p][s]
        ELSE /\ res.outcome = InvalidSignature
             /\ res.sessionKeys = sessionKeys[p]

\* an instance that established two sessions from registered bundles, while a
\* registered bundle with its preKey replaced is at hand
C9_Witness ==
  \E p \in Parties :
    /\ Cardinality(DOMAIN sessionKeys[p]) >= 2
    /\ \A sid \in DOMAIN sessionKeys[p] :
         \E q \in Parties : identityKeyPair[q] # NoKey /\ audit[p][sid].bundle = Register(q)
    /\ \E q \in Parties :
         /\ identityKeyPair[q] # NoKey
         /\ [Register(q) EXCEPT !.preKey = MalloryKey] \in Bundles
         /\ ~ValidSignature([Register(q) EXCEPT !.preKey = MalloryKey])

\* C10: when each of two peers has established a session from the bundle the
\* other registered, the two sessions hold the same keys.
C10_SessionAgreement ==
  \A sa \in DOMAIN sessionKeys["alice"] : \A sb \in DOMAIN sessionKeys["bob"] :
    ( /\ identityKeyPair["alice"] # NoKey
      /\ identityKeyPair["bob"] # NoKey
      /\ audit["alice"][sa].bundle = Register("bob")
      /\ audit["bob"][sb].bundle = Register("alice") )
    => /\ sessionKeys["alice"][sa].encryptionKey = sessionKeys["bob"][sb].encryptionKey
       /\ sessionKeys["alice"][sa].macKey = sessionKeys["bob"][sb].macKey
       /\ sessionKeys["alice"][sa].chainKey = sessionKeys["bob"][sb].chainKey

\* C11: no two establishSession calls made on the same bundle select the
\* same one-time prekey of it.
C11_OneTimePreKeySingleUse ==
  \A o1 \in Objects : \A o2 \in Objects \ {o1} :
    ( /\ audit[o1[1]][o1[2]].origin = "establishSession"
      /\ audit[o2[1]][o2[2]].origin = "establishSession"
      /\ audit[o1[1]][o1[2]].bundle = audit[o2[1]][o2[2]].bundle )
    => SelectedOneTimePreKey(audit[o1[1]][o1[2]].bundle)
         # SelectedOneTimePreKey(audit[o2[1]][o2[2]].bundle)

\* C12: after every ratchet step no two of the encryptionKey, macKey and
\* chainKey of the session hold the same bytes.
C12_RatchetKeySeparation ==
  \A o \in Objects : \A i \in DOMAIN Log(o) :
    LET session == Log(o)[i].post
    IN  /\ session.encryptionKey # session.macKey
        /\ session.encryptionKey # session.chainKey
        /\ session.macKey # session.chainKey

\* a call that is to leave the other sessions alone: it neither adds nor
\* removes a session, and changes none but the one it names
FrameOf(sessions, sessionId, res) ==
  /\ DOMAIN res.sessionKeys = DOMAIN sessions
  /\ \A s \in DOMAIN sessions \ {sessionId} : res.sessionKeys[s] = sessions[s]
  /\ sessionId \notin DOMAIN sessions =>
       (res.outcome = SessionNotFound /\ res.sessionKeys = sessions)

\* C18: encryptMessage, decryptMessage and updateChainKey on a sessionId the
\* instance holds no session under throw the session not found error and
\* leave the session map as it was; encryptMessage and decryptMessage on a
\* session change no other session.
C18_SessionRequired ==
  \A p \in Parties :
    /\ \A sid \in SessionIds :
         /\ \A m \in Messages : FrameOf(sessionKeys[p], sid, EncryptCall(p, sid, m))
         /\ sid \notin DOMAIN sessionKeys[p] =>
              FrameOf(sessionKeys[p], sid, UpdateChainKeyCall(sessionKeys[p], sid))
    /\ \A t \in Incoming : \A padOk \in BOOLEAN :
         FrameOf(sessionKeys[p], t.sessionId, DecryptMessage(sessionKeys[p], t, padOk))

\* an instance with one session that calls succeeded on and one still as it
\* was established, while the other instance holds a session it does not and
\* packages for that session are at hand
C18_Witness ==
  \E p \in Parties : \E s1, s2 \in DOMAIN sessionKeys[p] :
    /\ s1 # s2
    /\ Len(audit[p][s1].log) >= 1
    /\ sessionKeys[p][s2] = audit[p][s2].init
    /\ \E t \in sent : t.sessionId \notin DOMAIN sessionKeys[p]

\* C19: in every interleaving of the calls, decryptMessage updates the
\* counter of the very state its replay check read: the counter of an
\* accepted package is above messageCounter as the call found it and is
\* messageCounter as the call left it, the next call on the session finds the
\* session as the last one left it or with a higher counter, and so no two
\* packages accepted on a session have the same counter and no package with the
\* counter of an accepted one is accepted.
C19_NoDoubleAcceptance ==
  \A o \in Objects :
    /\ \A i \in DOMAIN Log(o) :
         /\ Log(o)[i].op = "decryptMessage" =>
              /\ Log(o)[i].pre.messageCounter < Log(o)[i].package.counter
              /\ Log(o)[i].post.messageCounter = Log(o)[i].package.counter
         /\ i > 1 => Log(o)[i].pre.messageCounter >= Log(o)[i - 1].post.messageCounter
    /\ \A v, w \in Accepted(o[1], o[2]) : v # w => v.counter # w.counter
    /\ \A v \in Accepted(o[1], o[2]) : \A t \in Incoming : \A padOk \in BOOLEAN :
         (t.sessionId = o[2] /\ t.counter = v.counter) =>
           DecryptMessage(sessionKeys[o[1]], t, padOk).outcome # "ok"

\* a session on which an encryptMessage call and, after it, a decryptMessage
\* call succeeded
C19_Witness ==
  \E o \in Objects : \E i, j \in DOMAIN Log(o) :
    /\ i < j
    /\ Log(o)[i].op = "encryptMessage"
    /\ Log(o)[j].op = "decryptMessage"

RECURSIVE Flatten(_)
Flatten(seqs) == IF seqs = <<>> THEN <<>> ELSE Head(seqs) \o Flatten(Tail(seqs))

\* C17: at the relay, for every user, what the /get-messages requests of the
\* user returned, one after the other, followed by what is queued for the
\* user, is what /send-message enqueued for the user, in that order; and a
\* /get-messages request returns the queue of its user, leaves it empty and
\* leaves every other queue as it was.
C17_RelayDrain ==
  /\ \A u \in Parties :
       Flatten(relayLog[u].drains) \o QueueOf(messages, u) = relayLog[u].enqueued
  /\ \A u \in Parties :
       LET res == GetMessagesHandler(messages, u)
       IN  /\ res.messages = QueueOf(messages, u)
           /\ res.queues[u] = <<>>
           /\ \A v \in DOMAIN messages \ {u} : res.queues[v] = messages[v]

\* a user that drained two messages, then one, while messages for the other
\* user stayed queued
C17_Witness ==
  \E u \in Parties : \E v \in Parties \ {u} :
    /\ Len(relayLog[u].drains) >= 2
    /\ Len(relayLog[u].drains[1]) = 2
    /\ Len(relayLog[u].drains[2]) = 1
    /\ QueueOf(messages, v) # <<>>

\* the call of the sender that made a message of the relay
MadeBy(message) ==
  LET log == audit[message.sender][message.sessionId].log
  IN  log[CHOOSE k \in DOMAIN log :
            /\ log[k].op = "encryptMessage"
            /\ log[k].package.counter = message.counter]

\* C13: the mac of every message queued at the relay is the MAC, under the
\* macKey its sender held before the ratchet step of the call, of all the
\* other fields as the receiver recomputes it: a receiver that holds the
\* session as the sender held it passes the MAC check.
C13_MacCoverage ==
  \A u \in DOMAIN messages : \A i \in DOMAIN messages[u] :
    MacMatches(AsPackage(messages[u][i]), MadeBy(messages[u][i]).pre)

\* C14: a receiveMessages call of a client that met no failed request and
\* drained messages of senders that are registered with the bundle they
\* made, the client being so too, returns every message drained, decrypted to
\* the text its sender gave.
C14_EndToEnd ==
  \A c \in Parties :
    LET d == done[c]["receive"]
    IN  ( /\ d.outcome = "ok"
          /\ ~d.transport
          /\ d.drained # <<>>
          /\ \A p \in Parties : p \in DOMAIN users /\ users[p] = Register(p) )
        => /\ Len(d.result) = Len(d.drained)
           /\ \A i \in DOMAIN d.result :
                d.result[i].content = MadeBy(d.drained[i]).text

\* C15: a client operation in which a relay request failed has changed the
\* counter and the keys of no session.
C15_TransportFailure ==
  \A c \in Parties : \A operation \in Operations :
    LET d == done[c][operation]
    IN  (d.outcome # "none" /\ d.transport) => ~d.changed

\* C16: an invalid signature, replay or MAC mismatch error raised by the
\* core in a client operation is the error the operation ends with.
C16_SecurityErrors ==
  \A c \in Parties : \A operation \in Operations :
    LET d == done[c][operation]
    IN  d.outcome # "none" =>
          \A error \in d.raised \cap {InvalidSignature, ReplayDetected, MacMismatch} :
            d.outcome = error

\* the bytes of a key, Buffer or not
Bytes(key) == IF IsBuffer(key) THEN key ELSE key[1]

\* a session as the successful calls of a log make it
RECURSIVE Replayed(_, _)
Replayed(session, log) ==
  IF log = <<>> THEN session
  ELSE LET before == Replayed(session, SubSeq(log, 1, Len(log) - 1))
           call == log[Len(log)]
       IN  UpdateChainKey([before EXCEPT !.messageCounter =
                             IF call.op = "encryptMessage" THEN @ + 1
                             ELSE call.package.counter])

\* C20: every session in the session file of a client is the session as it
\* was established and as the first calls that succeeded on it, up to some
\* call, have made it: a counter update and a ratchet step for each.
C20_SnapshotConsistency ==
  \A c \in Parties : \A sid \in DOMAIN files[c].sessionKeys :
    LET saved == files[c].sessionKeys[sid]
    IN  \E k \in 0..Len(audit[c][sid].log) :
          LET session == Replayed(audit[c][sid].init, SubSeq(audit[c][sid].log, 1, k))
          IN  /\ saved.messageCounter = session.messageCounter
              /\ Bytes(saved.encryptionKey) = session.encryptionKey
              /\ Bytes(saved.macKey) = session.macKey
              /\ Bytes(saved.chainKey) = session.chainKey

\* C21: once initialize() has run on an instance, however often, its key
\* ring holds an identity key pair, a prekey pair and exactly the 5 one-time
\* prekey pairs of one initialize() call, and the bundle that register()
\* builds lists exactly that many one-time keys.
C21_KeyringContents ==
  \A p \in Parties :
    generated[p] > 0 =>
      /\ identityKeyPair[p] # NoKey
      /\ preKeyPair[p] # NoKey
      /\ Len(oneTimePreKeys[p]) = NumOneTimePreKeys
      /\ Len(Register(p).oneTimePreKeys) = NumOneTimePreKeys

\* the sendMessage calls of client c that wait for the answer to /send-message
Sending(c) == {call \in Sends : tasks[c][call].pc = "sending"}

\* C22: whatever client operations overlap, the session store of a client
\* never holds two sessions with the same recipientId, and every package a
\* client has in flight to a peer was encrypted on the session that its
\* activeSessions maps that peer to.
C22_OneSessionPerPeer ==
  \A c \in Parties :
    /\ \A s1 \in DOMAIN sessionKeys[c] : \A s2 \in DOMAIN sessionKeys[c] \ {s1} :
         sessionKeys[c][s1].recipientId # sessionKeys[c][s2].recipientId
    /\ \A call \in Sending(c) :
         LET task == tasks[c][call]
         IN  /\ task.recipientId \in DOMAIN activeSessions[c]
             /\ task.posted.sessionId = activeSessions[c][task.recipientId]

\* the successful calls of one operation on a session, in their order
CallsOf(o, op) == SelectSeq(Log(o), LAMBDA entry : entry.op = op)

\* The second end has accepted, one by one and in the order the first end
\* made them, some of the packages of the first end and not yet all, both
\* ends having started from the same session record and no encryptMessage
\* call having thrown on either.
NextInOrder(e) ==
  LET made == CallsOf(e[1], "encryptMessage")
      got == CallsOf(e[2], "decryptMessage")
  IN  /\ audit[e[1][1]][e[1][2]].init = audit[e[2][1]][e[2][2]].init
      /\ audit[e[1][1]][e[1][2]].encFail = 0
      /\ audit[e[2][1]][e[2][2]].encFail = 0
      /\ Len(got) < Len(made)
      /\ \A k \in DOMAIN got : got[k].package = made[k].package

\* C23: when the two ends of a session both encrypt and decrypt on it, the
\* next package of one end in the order it was made, given to the other end
\* for the first time, is accepted by decryptMessage; it is not refused with
\* the replay error, also when both ends have sent before either received.
C23_NoFalseReplay ==
  \A e \in Ends : NextInOrder(e) =>
    LET made == CallsOf(e[1], "encryptMessage")
        next == made[Len(CallsOf(e[2], "decryptMessage")) + 1].package
    IN  DecryptMessage(sessionKeys[e[2][1]], next, TRUE).outcome = "ok"

====
